---- MODULE Spec2Model ----
(***************************************************************************)
(* Model of the condition-analysis engine of the cold-storage dashboard    *)
(* (src/app.py, class AIRipeningEngine).                                   *)
(*                                                                         *)
(* Units.  Sensor readings are Python floats; here a reading is an integer *)
(* number of hundredths of its unit (86.0 F is 8600, 4.9 ppm is 490).      *)
(* Times are integer tenths of an hour (11.5 h is 115).  An Optional value *)
(* is a sequence: None is << >> and a present value v is << v >>, so that  *)
(* an absent reading is a different value from every number, 0 included.   *)
(***************************************************************************)
EXTENDS Integers, Sequences, FiniteSets, TLC

VARIABLES
    temperature_f,      \* Optional reading handed to analyze_conditions
    humidity,           \* Optional reading
    ethylene_ppm,       \* Optional reading
    batch_start_time,   \* Optional time the active batch started
    season,             \* season string of the active batch
    now,                \* the wall clock, datetime.now(timezone.utc)
    analysis,           \* Optional result of the last analyze_conditions call
    \* AzureIoTHubConsumer (src/azure_iot_consumer.py)
    data_buffer,        \* deque(maxlen=max_buffer_size) of parsed messages
    message_count,      \* number of messages buffered so far
    last_message_time,  \* Optional time of the last buffered message
    is_running,         \* the consumer's running flag
    client,             \* Optional id of the EventHubConsumerClient in self.client
    callback,           \* Optional user callback
    receive_thread,     \* Optional id of the thread in self.receive_thread
    threads,            \* the receive threads created so far, each with its position
    callback_calls,     \* number of calls of the user callback
    last_call,          \* the last of start() and stop() that returned
    latest,             \* Optional [count, result] of the last get_latest_data call
    \* BatchManager (src/app.py) and the users of the page
    batches,            \* the Azure table "batches": row key -> entity
    users               \* each user's position in end_batch and last results

engineVars == <<temperature_f, humidity, ethylene_ppm, batch_start_time, season,
                analysis>>
consumerVars == <<data_buffer, message_count, last_message_time, is_running,
                  client, callback, receive_thread, threads, callback_calls,
                  last_call, latest>>
batchVars == <<batches, users>>

vars == <<engineVars, now, consumerVars, batchVars>>

None == << >>
Some(v) == << v >>
Val(x) == x[1]

Max(a, b) == IF a >= b THEN a ELSE b

(***************************************************************************)
(* AVOCADO_PARAMS, readings in hundredths, times as in the source.         *)
(***************************************************************************)
AVOCADO_PARAMS ==
    [ ethylene    |-> [ optimal_min |-> 1000, optimal_max |-> 10000,
                        warning_low |-> 500, critical_high |-> 15000 ],
      temperature |-> [ optimal_min |-> 6000, optimal_max |-> 6800,
                        storage_min |-> 4000, storage_max |-> 4500,
                        critical_high |-> 8600, critical_low |-> 4000 ],
      humidity    |-> [ optimal_min |-> 9000, optimal_max |-> 9500,
                        warning_low |-> 8500, critical_low |-> 8000 ],
      ripening_time |->
          [ early_season |-> [ ethylene_hours |-> 48, total_days |-> 6 ],
            mid_season   |-> [ ethylene_hours |-> 36, total_days |-> 5 ],
            late_season  |-> [ ethylene_hours |-> 24, total_days |-> 4 ] ],
      ventilation |-> [ interval_hours |-> 12, duration_minutes |-> 20 ] ]

params == AVOCADO_PARAMS

(***************************************************************************)
(* The format specification ":.1f": a value in hundredths rounded to the   *)
(* nearest tenth (ties to even), as a number of tenths.                    *)
(***************************************************************************)
Fmt1(v) ==
    LET q == v \div 10
        r == v % 10
    IN  IF r < 5 THEN q
        ELSE IF r > 5 THEN q + 1
        ELSE IF q % 2 = 0 THEN q ELSE q + 1

\* An alert, and a recommendation, as the dicts the classifiers build; a
\* message is its text with the numbers it embeds (in tenths).
Msg(text, shown) == [ text |-> text, shown |-> shown ]
Alert(type, message) == [ type |-> type, message |-> message ]
Rec(type, message, priority) ==
    [ type |-> type, message |-> message, priority |-> priority ]

Classified(status, alerts, recommendations) ==
    [ status |-> status, alerts |-> alerts, recommendations |-> recommendations ]

\* _analyze_temperature with '>' for '>=' at critical_high.
analyze_temperature_StrictCriticalHigh(temp_f) ==
    LET p == params.temperature IN
    IF temp_f = None THEN Classified("unknown", << >>, << >>)
    ELSE LET t == Val(temp_f) IN
    IF t > p.critical_high THEN
        Classified("critical",
            << Alert("critical",
                 Msg("CRITICAL: Temperature {temp_f:.1f}F exceeds {critical_high}F - Risk of flesh darkening!",
                     << Fmt1(t), Fmt1(p.critical_high) >>)) >>,
            << Rec("action",
                 Msg("IMMEDIATELY lower temperature to {optimal_max}F or below",
                     << Fmt1(p.optimal_max) >>),
                 "critical") >>)
    ELSE IF t > p.optimal_max THEN
        Classified("warning",
            << Alert("warning",
                 Msg("Temperature {temp_f:.1f}F is above optimal range ({optimal_min}-{optimal_max}F)",
                     << Fmt1(t), Fmt1(p.optimal_min), Fmt1(p.optimal_max) >>)) >>,
            << Rec("action",
                 Msg("Reduce temperature by {(temp_f - optimal_max):.1f}F for optimal ripening",
                     << Fmt1(t - p.optimal_max) >>),
                 "high") >>)
    ELSE IF t < p.critical_low THEN
        Classified("critical",
            << Alert("critical",
                 Msg("CRITICAL: Temperature {temp_f:.1f}F below {critical_low}F - Chilling injury risk!",
                     << Fmt1(t), Fmt1(p.critical_low) >>)) >>,
            << Rec("action",
                 Msg("IMMEDIATELY raise temperature above {critical_low}F",
                     << Fmt1(p.critical_low) >>),
                 "critical") >>)
    ELSE IF t < p.optimal_min THEN
        Classified("warning",
            << Alert("warning",
                 Msg("Temperature {temp_f:.1f}F is below optimal range ({optimal_min}-{optimal_max}F)",
                     << Fmt1(t), Fmt1(p.optimal_min), Fmt1(p.optimal_max) >>)) >>,
            << Rec("action",
                 Msg("Increase temperature by {(optimal_min - temp_f):.1f}F for faster ripening",
                     << Fmt1(p.optimal_min - t) >>),
                 "medium") >>)
    ELSE Classified("optimal", << >>, << >>)

\* _analyze_temperature comparing with storage_max where critical_low is meant.
analyze_temperature_StorageMaxAsCriticalLow(temp_f) ==
    LET p == params.temperature IN
    IF temp_f = None THEN Classified("unknown", << >>, << >>)
    ELSE LET t == Val(temp_f) IN
    IF t >= p.critical_high THEN
        Classified("critical",
            << Alert("critical",
                 Msg("CRITICAL: Temperature {temp_f:.1f}F exceeds {critical_high}F - Risk of flesh darkening!",
                     << Fmt1(t), Fmt1(p.critical_high) >>)) >>,
            << Rec("action",
                 Msg("IMMEDIATELY lower temperature to {optimal_max}F or below",
                     << Fmt1(p.optimal_max) >>),
                 "critical") >>)
    ELSE IF t > p.optimal_max THEN
        Classified("warning",
            << Alert("warning",
                 Msg("Temperature {temp_f:.1f}F is above optimal range ({optimal_min}-{optimal_max}F)",
                     << Fmt1(t), Fmt1(p.optimal_min), Fmt1(p.optimal_max) >>)) >>,
            << Rec("action",
                 Msg("Reduce temperature by {(temp_f - optimal_max):.1f}F for optimal ripening",
                     << Fmt1(t - p.optimal_max) >>),
                 "high") >>)
    ELSE IF t < p.storage_max THEN
        Classified("critical",
            << Alert("critical",
                 Msg("CRITICAL: Temperature {temp_f:.1f}F below {critical_low}F - Chilling injury risk!",
                     << Fmt1(t), Fmt1(p.critical_low) >>)) >>,
            << Rec("action",
                 Msg("IMMEDIATELY raise temperature above {critical_low}F",
                     << Fmt1(p.critical_low) >>),
                 "critical") >>)
    ELSE IF t < p.optimal_min THEN
        Classified("warning",
            << Alert("warning",
                 Msg("Temperature {temp_f:.1f}F is below optimal range ({optimal_min}-{optimal_max}F)",
                     << Fmt1(t), Fmt1(p.optimal_min), Fmt1(p.optimal_max) >>)) >>,
            << Rec("action",
                 Msg("Increase temperature by {(optimal_min - temp_f):.1f}F for faster ripening",
                     << Fmt1(p.optimal_min - t) >>),
                 "medium") >>)
    ELSE Classified("optimal", << >>, << >>)

\* _analyze_temperature giving the reduction down to optimal_min.
analyze_temperature_ReduceToOptimalMin(temp_f) ==
    LET p == params.temperature IN
    IF temp_f = None THEN Classified("unknown", << >>, << >>)
    ELSE LET t == Val(temp_f) IN
    IF t >= p.critical_high THEN
        Classified("critical",
            << Alert("critical",
                 Msg("CRITICAL: Temperature {temp_f:.1f}F exceeds {critical_high}F - Risk of flesh darkening!",
                     << Fmt1(t), Fmt1(p.critical_high) >>)) >>,
            << Rec("action",
                 Msg("IMMEDIATELY lower temperature to {optimal_max}F or below",
                     << Fmt1(p.optimal_max) >>),
                 "critical") >>)
    ELSE IF t > p.optimal_max THEN
        Classified("warning",
            << Alert("warning",
                 Msg("Temperature {temp_f:.1f}F is above optimal range ({optimal_min}-{optimal_max}F)",
                     << Fmt1(t), Fmt1(p.optimal_min), Fmt1(p.optimal_max) >>)) >>,
            << Rec("action",
                 Msg("Reduce temperature by {(temp_f - optimal_max):.1f}F for optimal ripening",
                     << Fmt1(t - p.optimal_min) >>),
                 "high") >>)
    ELSE IF t < p.critical_low THEN
        Classified("critical",
            << Alert("critical",
                 Msg("CRITICAL: Temperature {temp_f:.1f}F below {critical_low}F - Chilling injury risk!",
                     << Fmt1(t), Fmt1(p.critical_low) >>)) >>,
            << Rec("action",
                 Msg("IMMEDIATELY raise temperature above {critical_low}F",
                     << Fmt1(p.critical_low) >>),
                 "critical") >>)
    ELSE IF t < p.optimal_min THEN
        Classified("warning",
            << Alert("warning",
                 Msg("Temperature {temp_f:.1f}F is below optimal range ({optimal_min}-{optimal_max}F)",
                     << Fmt1(t), Fmt1(p.optimal_min), Fmt1(p.optimal_max) >>)) >>,
            << Rec("action",
                 Msg("Increase temperature by {(optimal_min - temp_f):.1f}F for faster ripening",
                     << Fmt1(p.optimal_min - t) >>),
                 "medium") >>)
    ELSE Classified("optimal", << >>, << >>)

(***************************************************************************)
(* AIRipeningEngine._analyze_temperature.  The elif chain is kept in the   *)
(* order of the source.                                                    *)
(***************************************************************************)
analyze_temperature(temp_f) ==
    LET p == params.temperature IN
    IF temp_f = None THEN Classified("unknown", << >>, << >>)
    ELSE LET t == Val(temp_f) IN
    IF t >= p.critical_high THEN
        Classified("critical",
            << Alert("critical",
                 Msg("CRITICAL: Temperature {temp_f:.1f}F exceeds {critical_high}F - Risk of flesh darkening!",
                     << Fmt1(t), Fmt1(p.critical_high) >>)) >>,
            << Rec("action",
                 Msg("IMMEDIATELY lower temperature to {optimal_max}F or below",
                     << Fmt1(p.optimal_max) >>),
                 "critical") >>)
    ELSE IF t > p.optimal_max THEN
        Classified("warning",
            << Alert("warning",
                 Msg("Temperature {temp_f:.1f}F is above optimal range ({optimal_min}-{optimal_max}F)",
                     << Fmt1(t), Fmt1(p.optimal_min), Fmt1(p.optimal_max) >>)) >>,
            << Rec("action",
                 Msg("Reduce temperature by {(temp_f - optimal_max):.1f}F for optimal ripening",
                     << Fmt1(t - p.optimal_max) >>),
                 "high") >>)
    ELSE IF t < p.critical_low THEN
        Classified("critical",
            << Alert("critical",
                 Msg("CRITICAL: Temperature {temp_f:.1f}F below {critical_low}F - Chilling injury risk!",
                     << Fmt1(t), Fmt1(p.critical_low) >>)) >>,
            << Rec("action",
                 Msg("IMMEDIATELY raise temperature above {critical_low}F",
                     << Fmt1(p.critical_low) >>),
                 "critical") >>)
    ELSE IF t < p.optimal_min THEN
        Classified("warning",
            << Alert("warning",
                 Msg("Temperature {temp_f:.1f}F is below optimal range ({optimal_min}-{optimal_max}F)",
                     << Fmt1(t), Fmt1(p.optimal_min), Fmt1(p.optimal_max) >>)) >>,
            << Rec("action",
                 Msg("Increase temperature by {(optimal_min - temp_f):.1f}F for faster ripening",
                     << Fmt1(p.optimal_min - t) >>),
                 "medium") >>)
    ELSE Classified("optimal", << >>, << >>)

\* _analyze_humidity warning below optimal_min instead of warning_low.
analyze_humidity_WarnBelowOptimalMin(hum) ==
    LET p == params.humidity IN
    IF hum = None THEN Classified("unknown", << >>, << >>)
    ELSE LET h == Val(hum) IN
    IF h < p.critical_low THEN
        Classified("critical",
            << Alert("critical",
                 Msg("CRITICAL: Humidity {humidity:.1f}% below {critical_low}% - Quality loss occurring!",
                     << Fmt1(h), Fmt1(p.critical_low) >>)) >>,
            << Rec("action",
                 Msg("IMMEDIATELY increase humidification - risk of weight loss and quality degradation",
                     << >>),
                 "critical") >>)
    ELSE IF h < p.optimal_min THEN
        Classified("warning",
            << Alert("warning",
                 Msg("Humidity {humidity:.1f}% is below optimal ({optimal_min}-{optimal_max}%)",
                     << Fmt1(h), Fmt1(p.optimal_min), Fmt1(p.optimal_max) >>)) >>,
            << Rec("action",
                 Msg("Increase humidity by {(optimal_min - humidity):.1f}% to prevent moisture loss",
                     << Fmt1(p.optimal_min - h) >>),
                 "high") >>)
    ELSE IF h > p.optimal_max THEN
        Classified("warning",
            << Alert("warning",
                 Msg("Humidity {humidity:.1f}% is above optimal - condensation risk",
                     << Fmt1(h) >>)) >>,
            << Rec("action",
                 Msg("Reduce humidity slightly to prevent condensation and mold risk",
                     << >>),
                 "medium") >>)
    ELSE Classified("optimal", << >>, << >>)

\* _analyze_humidity whose above-optimal branch appends its recommendation
\* to the alerts instead of the recommendations.
analyze_humidity_HighWithoutRec(hum) ==
    LET p == params.humidity IN
    IF hum = None THEN Classified("unknown", << >>, << >>)
    ELSE LET h == Val(hum) IN
    IF h < p.critical_low THEN
        Classified("critical",
            << Alert("critical",
                 Msg("CRITICAL: Humidity {humidity:.1f}% below {critical_low}% - Quality loss occurring!",
                     << Fmt1(h), Fmt1(p.critical_low) >>)) >>,
            << Rec("action",
                 Msg("IMMEDIATELY increase humidification - risk of weight loss and quality degradation",
                     << >>),
                 "critical") >>)
    ELSE IF h < p.warning_low THEN
        Classified("warning",
            << Alert("warning",
                 Msg("Humidity {humidity:.1f}% is below optimal ({optimal_min}-{optimal_max}%)",
                     << Fmt1(h), Fmt1(p.optimal_min), Fmt1(p.optimal_max) >>)) >>,
            << Rec("action",
                 Msg("Increase humidity by {(optimal_min - humidity):.1f}% to prevent moisture loss",
                     << Fmt1(p.optimal_min - h) >>),
                 "high") >>)
    ELSE IF h > p.optimal_max THEN
        Classified("warning",
            << Alert("warning",
                 Msg("Humidity {humidity:.1f}% is above optimal - condensation risk",
                     << Fmt1(h) >>)),
               Alert("action",
                 Msg("Reduce humidity slightly to prevent condensation and mold risk",
                     << >>)) >>,
            << >>)
    ELSE Classified("optimal", << >>, << >>)

(***************************************************************************)
(* AIRipeningEngine._analyze_humidity.                                     *)
(***************************************************************************)
analyze_humidity(hum) ==
    LET p == params.humidity IN
    IF hum = None THEN Classified("unknown", << >>, << >>)
    ELSE LET h == Val(hum) IN
    IF h < p.critical_low THEN
        Classified("critical",
            << Alert("critical",
                 Msg("CRITICAL: Humidity {humidity:.1f}% below {critical_low}% - Quality loss occurring!",
                     << Fmt1(h), Fmt1(p.critical_low) >>)) >>,
            << Rec("action",
                 Msg("IMMEDIATELY increase humidification - risk of weight loss and quality degradation",
                     << >>),
                 "critical") >>)
    ELSE IF h < p.warning_low THEN
        Classified("warning",
            << Alert("warning",
                 Msg("Humidity {humidity:.1f}% is below optimal ({optimal_min}-{optimal_max}%)",
                     << Fmt1(h), Fmt1(p.optimal_min), Fmt1(p.optimal_max) >>)) >>,
            << Rec("action",
                 Msg("Increase humidity by {(optimal_min - humidity):.1f}% to prevent moisture loss",
                     << Fmt1(p.optimal_min - h) >>),
                 "high") >>)
    ELSE IF h > p.optimal_max THEN
        Classified("warning",
            << Alert("warning",
                 Msg("Humidity {humidity:.1f}% is above optimal - condensation risk",
                     << Fmt1(h) >>)) >>,
            << Rec("action",
                 Msg("Reduce humidity slightly to prevent condensation and mold risk",
                     << >>),
                 "medium") >>)
    ELSE Classified("optimal", << >>, << >>)

\* _analyze_ethylene escalating a very high concentration to critical.
analyze_ethylene_HighIsCritical(eth) ==
    LET p == params.ethylene IN
    IF eth = None THEN Classified("unknown", << >>, << >>)
    ELSE LET e == Val(eth) IN
    IF e > p.critical_high THEN
        Classified("critical",
            << Alert("critical",
                 Msg("Ethylene {ethylene_ppm:.1f} ppm is very high - may cause over-ripening",
                     << Fmt1(e) >>)) >>,
            << Rec("action",
                 Msg("Ventilate room to reduce ethylene concentration", << >>),
                 "high") >>)
    ELSE IF e < p.warning_low THEN
        Classified("warning",
            << Alert("warning",
                 Msg("Ethylene {ethylene_ppm:.1f} ppm is very low - slow ripening expected",
                     << Fmt1(e) >>)) >>,
            << Rec("action",
                 Msg("Consider adding ethylene generator or ripe fruit to increase levels",
                     << >>),
                 "medium") >>)
    ELSE IF e < p.optimal_min THEN
        Classified("optimal", << >>,
            << Rec("info",
                 Msg("Ethylene {ethylene_ppm:.1f} ppm is acceptable but below optimal ({optimal_min}-{optimal_max} ppm)",
                     << Fmt1(e), Fmt1(p.optimal_min), Fmt1(p.optimal_max) >>),
                 "low") >>)
    ELSE Classified("optimal", << >>, << >>)

\* _analyze_ethylene with '<=' for '<' at warning_low.
analyze_ethylene_WarningLowInclusive(eth) ==
    LET p == params.ethylene IN
    IF eth = None THEN Classified("unknown", << >>, << >>)
    ELSE LET e == Val(eth) IN
    IF e > p.critical_high THEN
        Classified("warning",
            << Alert("warning",
                 Msg("Ethylene {ethylene_ppm:.1f} ppm is very high - may cause over-ripening",
                     << Fmt1(e) >>)) >>,
            << Rec("action",
                 Msg("Ventilate room to reduce ethylene concentration", << >>),
                 "high") >>)
    ELSE IF e <= p.warning_low THEN
        Classified("warning",
            << Alert("warning",
                 Msg("Ethylene {ethylene_ppm:.1f} ppm is very low - slow ripening expected",
                     << Fmt1(e) >>)) >>,
            << Rec("action",
                 Msg("Consider adding ethylene generator or ripe fruit to increase levels",
                     << >>),
                 "medium") >>)
    ELSE IF e < p.optimal_min THEN
        Classified("optimal", << >>,
            << Rec("info",
                 Msg("Ethylene {ethylene_ppm:.1f} ppm is acceptable but below optimal ({optimal_min}-{optimal_max} ppm)",
                     << Fmt1(e), Fmt1(p.optimal_min), Fmt1(p.optimal_max) >>),
                 "low") >>)
    ELSE Classified("optimal", << >>, << >>)

\* _analyze_ethylene with '<=' for '<' at optimal_min.
analyze_ethylene_OptimalMinInclusive(eth) ==
    LET p == params.ethylene IN
    IF eth = None THEN Classified("unknown", << >>, << >>)
    ELSE LET e == Val(eth) IN
    IF e > p.critical_high THEN
        Classified("warning",
            << Alert("warning",
                 Msg("Ethylene {ethylene_ppm:.1f} ppm is very high - may cause over-ripening",
                     << Fmt1(e) >>)) >>,
            << Rec("action",
                 Msg("Ventilate room to reduce ethylene concentration", << >>),
                 "high") >>)
    ELSE IF e < p.warning_low THEN
        Classified("warning",
            << Alert("warning",
                 Msg("Ethylene {ethylene_ppm:.1f} ppm is very low - slow ripening expected",
                     << Fmt1(e) >>)) >>,
            << Rec("action",
                 Msg("Consider adding ethylene generator or ripe fruit to increase levels",
                     << >>),
                 "medium") >>)
    ELSE IF e <= p.optimal_min THEN
        Classified("optimal", << >>,
            << Rec("info",
                 Msg("Ethylene {ethylene_ppm:.1f} ppm is acceptable but below optimal ({optimal_min}-{optimal_max} ppm)",
                     << Fmt1(e), Fmt1(p.optimal_min), Fmt1(p.optimal_max) >>),
                 "low") >>)
    ELSE Classified("optimal", << >>, << >>)

\* _analyze_ethylene classifying an absent reading as optimal.
analyze_ethylene_NoneIsOptimal(eth) ==
    LET p == params.ethylene IN
    IF eth = None THEN Classified("optimal", << >>, << >>)
    ELSE LET e == Val(eth) IN
    IF e > p.critical_high THEN
        Classified("warning",
            << Alert("warning",
                 Msg("Ethylene {ethylene_ppm:.1f} ppm is very high - may cause over-ripening",
                     << Fmt1(e) >>)) >>,
            << Rec("action",
                 Msg("Ventilate room to reduce ethylene concentration", << >>),
                 "high") >>)
    ELSE IF e < p.warning_low THEN
        Classified("warning",
            << Alert("warning",
                 Msg("Ethylene {ethylene_ppm:.1f} ppm is very low - slow ripening expected",
                     << Fmt1(e) >>)) >>,
            << Rec("action",
                 Msg("Consider adding ethylene generator or ripe fruit to increase levels",
                     << >>),
                 "medium") >>)
    ELSE IF e < p.optimal_min THEN
        Classified("optimal", << >>,
            << Rec("info",
                 Msg("Ethylene {ethylene_ppm:.1f} ppm is acceptable but below optimal ({optimal_min}-{optimal_max} ppm)",
                     << Fmt1(e), Fmt1(p.optimal_min), Fmt1(p.optimal_max) >>),
                 "low") >>)
    ELSE Classified("optimal", << >>, << >>)

(***************************************************************************)
(* AIRipeningEngine._analyze_ethylene.                                     *)
(***************************************************************************)
analyze_ethylene(eth) ==
    LET p == params.ethylene IN
    IF eth = None THEN Classified("unknown", << >>, << >>)
    ELSE LET e == Val(eth) IN
    IF e > p.critical_high THEN
        Classified("warning",
            << Alert("warning",
                 Msg("Ethylene {ethylene_ppm:.1f} ppm is very high - may cause over-ripening",
                     << Fmt1(e) >>)) >>,
            << Rec("action",
                 Msg("Ventilate room to reduce ethylene concentration", << >>),
                 "high") >>)
    ELSE IF e < p.warning_low THEN
        Classified("warning",
            << Alert("warning",
                 Msg("Ethylene {ethylene_ppm:.1f} ppm is very low - slow ripening expected",
                     << Fmt1(e) >>)) >>,
            << Rec("action",
                 Msg("Consider adding ethylene generator or ripe fruit to increase levels",
                     << >>),
                 "medium") >>)
    ELSE IF e < p.optimal_min THEN
        Classified("optimal", << >>,
            << Rec("info",
                 Msg("Ethylene {ethylene_ppm:.1f} ppm is acceptable but below optimal ({optimal_min}-{optimal_max} ppm)",
                     << Fmt1(e), Fmt1(p.optimal_min), Fmt1(p.optimal_max) >>),
                 "low") >>)
    ELSE Classified("optimal", << >>, << >>)

\* MergeStatus without the "status != 'critical'" test of the elif: a later
\* warning overwrites an earlier critical.
MergeStatus_WarningOverwrites(status, sub_status) ==
    IF sub_status = "critical" THEN "critical"
    ELSE IF sub_status = "warning" THEN "warning"
    ELSE status

\* MergeStatus treating every result other than 'optimal' as at least a
\* warning, so that 'unknown' escalates.
MergeStatus_UnknownEscalates(status, sub_status) ==
    IF sub_status = "critical" THEN "critical"
    ELSE IF sub_status # "optimal" /\ status # "critical" THEN "warning"
    ELSE status

(***************************************************************************)
(* analyze_conditions, lines 522-525 (repeated at 531-534 and 540-543):    *)
(* the running status after one more classifier result.                    *)
(***************************************************************************)
MergeStatus(status, sub_status) ==
    IF sub_status = "critical" THEN "critical"
    ELSE IF sub_status = "warning" /\ status # "critical" THEN "warning"
    ELSE status

(***************************************************************************)
(* analyze_conditions, lines 545-565: stage, progress and time remaining   *)
(* from the clock reading t.  progress_percent is the exact fraction       *)
(* num/den (in percent); time_remaining is in tenths of an hour.           *)
(***************************************************************************)
Percent(n) == [ num |-> n, den |-> 1 ]
PctLess(a, n) == a.num < n * a.den
PctLeq(a, b) == a.num * b.den <= b.num * a.den

\* the progress estimate without min(100, ...) at line 555.
RipeningProgress_NoUpperClamp(start, seas, t) ==
    IF start = None THEN
        [ progress_percent |-> Percent(0), ripening_stage |-> "Green",
          time_remaining |-> None ]
    ELSE
        LET hours_elapsed == t - Val(start)
            season_params ==
                IF seas \in DOMAIN params.ripening_time
                THEN params.ripening_time[seas]
                ELSE params.ripening_time.mid_season
            total_hours == season_params.total_days * 24
            raw == [ num |-> hours_elapsed * 10, den |-> total_hours ]
            progress == raw
        IN  [ progress_percent |-> progress,
              ripening_stage |->
                  IF PctLess(progress, 20) THEN "Green"
                  ELSE IF PctLess(progress, 50) THEN "Breaking"
                  ELSE IF PctLess(progress, 80) THEN "Ripe"
                  ELSE "Ready-to-Eat",
              time_remaining |-> Some(Max(0, total_hours * 10 - hours_elapsed)) ]

\* the stage chain with '<=' for '<' at line 558.
RipeningProgress_GreenInclusive(start, seas, t) ==
    IF start = None THEN
        [ progress_percent |-> Percent(0), ripening_stage |-> "Green",
          time_remaining |-> None ]
    ELSE
        LET hours_elapsed == t - Val(start)
            season_params ==
                IF seas \in DOMAIN params.ripening_time
                THEN params.ripening_time[seas]
                ELSE params.ripening_time.mid_season
            total_hours == season_params.total_days * 24
            raw == [ num |-> hours_elapsed * 10, den |-> total_hours ]
            progress == IF PctLeq(Percent(100), raw)
                        THEN Percent(100) ELSE raw
        IN  [ progress_percent |-> progress,
              ripening_stage |->
                  IF PctLeq(progress, Percent(20)) THEN "Green"
                  ELSE IF PctLess(progress, 50) THEN "Breaking"
                  ELSE IF PctLess(progress, 80) THEN "Ripe"
                  ELSE "Ready-to-Eat",
              time_remaining |-> Some(Max(0, total_hours * 10 - hours_elapsed)) ]

\* the season lookup falling back to early_season instead of mid_season.
RipeningProgress_FallbackEarly(start, seas, t) ==
    IF start = None THEN
        [ progress_percent |-> Percent(0), ripening_stage |-> "Green",
          time_remaining |-> None ]
    ELSE
        LET hours_elapsed == t - Val(start)
            season_params ==
                IF seas \in DOMAIN params.ripening_time
                THEN params.ripening_time[seas]
                ELSE params.ripening_time.early_season
            total_hours == season_params.total_days * 24
            raw == [ num |-> hours_elapsed * 10, den |-> total_hours ]
            progress == IF PctLeq(Percent(100), raw)
                        THEN Percent(100) ELSE raw
        IN  [ progress_percent |-> progress,
              ripening_stage |->
                  IF PctLess(progress, 20) THEN "Green"
                  ELSE IF PctLess(progress, 50) THEN "Breaking"
                  ELSE IF PctLess(progress, 80) THEN "Ripe"
                  ELSE "Ready-to-Eat",
              time_remaining |-> Some(Max(0, total_hours * 10 - hours_elapsed)) ]

RipeningProgress(start, seas, t) ==
    IF start = None THEN
        [ progress_percent |-> Percent(0), ripening_stage |-> "Green",
          time_remaining |-> None ]
    ELSE
        LET hours_elapsed == t - Val(start)
            season_params ==
                IF seas \in DOMAIN params.ripening_time
                THEN params.ripening_time[seas]
                ELSE params.ripening_time.mid_season
            total_hours == season_params.total_days * 24
            raw == [ num |-> hours_elapsed * 10, den |-> total_hours ]
            progress == IF PctLeq(Percent(100), raw)
                        THEN Percent(100) ELSE raw
        IN  [ progress_percent |-> progress,
              ripening_stage |->
                  IF PctLess(progress, 20) THEN "Green"
                  ELSE IF PctLess(progress, 50) THEN "Breaking"
                  ELSE IF PctLess(progress, 80) THEN "Ripe"
                  ELSE "Ready-to-Eat",
              time_remaining |-> Some(Max(0, total_hours * 10 - hours_elapsed)) ]

\* the two reminders of _check_ventilation_schedule (lines 740-744, 746-750)
VentDueSoonRec ==
    Rec("action",
        Msg("Ventilation due soon - open doors for {vent_duration} minutes to prevent CO2 buildup",
            << params.ventilation.duration_minutes * 10 >>),
        "medium")

VentRecentRec ==
    Rec("info",
        Msg("Ventilation recently completed - next due in ~{vent_interval:.0f} hours",
            << params.ventilation.interval_hours * 10 >>),
        "low")

\* _check_ventilation_schedule without the early return for a missing batch
\* start (the cycle then counts from the clock reading itself).
check_ventilation_schedule_NoNullGuard(start, t) ==
    IF start = None THEN Some(VentRecentRec)
    ELSE
        LET hours_elapsed == t - Val(start)
            vent_interval == params.ventilation.interval_hours
            hours_since_last_vent == hours_elapsed % (vent_interval * 10)
        IN  IF hours_since_last_vent >= vent_interval * 10 - 5 THEN
                Some(VentDueSoonRec)
            ELSE IF hours_since_last_vent < 5 THEN
                Some(VentRecentRec)
            ELSE None

\* _check_ventilation_schedule announcing the ventilation during the whole
\* last hour of the cycle.
check_ventilation_schedule_LastHour(start, t) ==
    IF start = None THEN None
    ELSE
        LET hours_elapsed == t - Val(start)
            vent_interval == params.ventilation.interval_hours
            hours_since_last_vent == hours_elapsed % (vent_interval * 10)
        IN  IF hours_since_last_vent >= vent_interval * 10 - 10 THEN
                Some(VentDueSoonRec)
            ELSE IF hours_since_last_vent < 5 THEN
                Some(VentRecentRec)
            ELSE None

\* _check_ventilation_schedule reporting a completed ventilation up to and
\* including half an hour into the cycle.
check_ventilation_schedule_RecentInclusive(start, t) ==
    IF start = None THEN None
    ELSE
        LET hours_elapsed == t - Val(start)
            vent_interval == params.ventilation.interval_hours
            hours_since_last_vent == hours_elapsed % (vent_interval * 10)
        IN  IF hours_since_last_vent >= vent_interval * 10 - 5 THEN
                Some(VentDueSoonRec)
            ELSE IF hours_since_last_vent <= 5 THEN
                Some(VentRecentRec)
            ELSE None

(***************************************************************************)
(* AIRipeningEngine._check_ventilation_schedule with its own clock reading *)
(* t: an Optional recommendation.                                          *)
(***************************************************************************)
check_ventilation_schedule(start, t) ==
    IF start = None THEN None
    ELSE
        LET hours_elapsed == t - Val(start)
            vent_interval == params.ventilation.interval_hours
            hours_since_last_vent == hours_elapsed % (vent_interval * 10)
        IN  IF hours_since_last_vent >= vent_interval * 10 - 5 THEN
                Some(VentDueSoonRec)
            ELSE IF hours_since_last_vent < 5 THEN
                Some(VentRecentRec)
            ELSE None

AllOptimalRec ==
    Rec("success", Msg("All conditions are optimal for avocado ripening", << >>),
        "info")

\* analyze_conditions running the humidity analysis before the temperature
\* analysis.
analyze_conditions_HumidityFirst(temp_f, hum, eth, start, seas, t1, t2) ==
    LET temp == analyze_temperature(temp_f)
        status1 == MergeStatus("optimal", temp.status)
        hm == analyze_humidity(hum)
        status2 == MergeStatus(status1, hm.status)
        et == analyze_ethylene(eth)
        status == MergeStatus(status2, et.status)
        alerts == hm.alerts \o temp.alerts \o et.alerts
        recs3 == hm.recommendations \o temp.recommendations
                     \o et.recommendations
        prog == RipeningProgress(start, seas, t1)
        vent_rec == check_ventilation_schedule(start, t2)
        recs4 == IF vent_rec # None THEN Append(recs3, Val(vent_rec)) ELSE recs3
        recommendations ==
            IF status = "optimal" /\ alerts = << >>
            THEN << AllOptimalRec >> \o recs4 ELSE recs4
    IN  [ status |-> status,
          alerts |-> alerts,
          recommendations |-> recommendations,
          ripening_stage |-> prog.ripening_stage,
          progress_percent |-> prog.progress_percent,
          time_remaining |-> prog.time_remaining ]

\* analyze_conditions with append for insert(0, ...) at line 573.
analyze_conditions_NoteAppended(temp_f, hum, eth, start, seas, t1, t2) ==
    LET temp == analyze_temperature(temp_f)
        status1 == MergeStatus("optimal", temp.status)
        hm == analyze_humidity(hum)
        status2 == MergeStatus(status1, hm.status)
        et == analyze_ethylene(eth)
        status == MergeStatus(status2, et.status)
        alerts == temp.alerts \o hm.alerts \o et.alerts
        recs3 == temp.recommendations \o hm.recommendations
                     \o et.recommendations
        prog == RipeningProgress(start, seas, t1)
        vent_rec == check_ventilation_schedule(start, t2)
        recs4 == IF vent_rec # None THEN Append(recs3, Val(vent_rec)) ELSE recs3
        recommendations ==
            IF status = "optimal" /\ alerts = << >>
            THEN Append(recs4, AllOptimalRec) ELSE recs4
    IN  [ status |-> status,
          alerts |-> alerts,
          recommendations |-> recommendations,
          ripening_stage |-> prog.ripening_stage,
          progress_percent |-> prog.progress_percent,
          time_remaining |-> prog.time_remaining ]

(***************************************************************************)
(* AIRipeningEngine.analyze_conditions.  t1 and t2 are the two readings of *)
(* the clock the call makes (line 551, and line 733 inside the ventilation *)
(* check).                                                                 *)
(***************************************************************************)
analyze_conditions(temp_f, hum, eth, start, seas, t1, t2) ==
    LET temp == analyze_temperature(temp_f)
        status1 == MergeStatus("optimal", temp.status)
        hm == analyze_humidity(hum)
        status2 == MergeStatus(status1, hm.status)
        et == analyze_ethylene(eth)
        status == MergeStatus(status2, et.status)
        alerts == temp.alerts \o hm.alerts \o et.alerts
        recs3 == temp.recommendations \o hm.recommendations
                     \o et.recommendations
        prog == RipeningProgress(start, seas, t1)
        vent_rec == check_ventilation_schedule(start, t2)
        recs4 == IF vent_rec # None THEN Append(recs3, Val(vent_rec)) ELSE recs3
        recommendations ==
            IF status = "optimal" /\ alerts = << >>
            THEN << AllOptimalRec >> \o recs4 ELSE recs4
    IN  [ status |-> status,
          alerts |-> alerts,
          recommendations |-> recommendations,
          ripening_stage |-> prog.ripening_stage,
          progress_percent |-> prog.progress_percent,
          time_remaining |-> prog.time_remaining ]

(***************************************************************************)
(* AzureIoTHubConsumer (src/azure_iot_consumer.py).  A JSON object is a    *)
(* function from its keys to its values; sensor values are in hundredths.  *)
(***************************************************************************)
\* dict.get(key): the value under the key, or None
Get(message, key) == IF key \in DOMAIN message THEN Some(message[key]) ELSE None

\* Python truth of an Optional value whose falsy value is zero (0 for a
\* number, "" for a string): None and zero are both false
Truthy(x, zero) == x # None /\ Val(x) # zero

\* Python's "a or b": a when a is true, else b, whatever b is
Or(a, b, zero) == IF Truthy(a, zero) THEN a ELSE b

(***************************************************************************)
(* AzureIoTHubConsumer._parse_message at clock reading t: the parsed       *)
(* message, or None for an empty body (86-87), a body that is not JSON     *)
(* (126-128) and JSON that is not an object, whose .get raises (129-131).  *)
(***************************************************************************)
parse_message(event_data, t) ==
    LET body == event_data.body IN
    IF body.kind = "empty" THEN None
    ELSE IF body.kind = "malformed" THEN None
    ELSE IF body.kind # "object" THEN None
    ELSE
        LET message == body.fields
            system_id == event_data.device_id
            device_id == IF Truthy(system_id, "") THEN system_id
                         ELSE Or(Get(message, "deviceId"),
                                 Get(message, "device_id"), "")
        IN  Some([ timestamp |-> t,
                   device_id |-> IF Truthy(device_id, "") THEN Val(device_id)
                                 ELSE "unknown",
                   raw_data |-> message,
                   temperature_c |->
                       Or(Or(Get(message, "temperature"), Get(message, "temp"), 0),
                          Get(message, "temperature_c"), 0),
                   humidity |->
                       Or(Get(message, "humidity"), Get(message, "hum"), 0),
                   ethylene_ppm |->
                       Or(Or(Get(message, "ethylene_ppm"), Get(message, "ethylene"), 0),
                          Get(message, "c2h4"), 0),
                   enqueued_time |-> event_data.enqueued_time ])

\* celsius_to_fahrenheit on hundredths; every Celsius value of the model is
\* a multiple of 0.05, for which the result is exact
celsius_to_fahrenheit(celsius) ==
    IF celsius = None THEN None
    ELSE Some((Val(celsius) * 9) \div 5 + 3200)

\* the text a station metric shows for a value (main, lines 1337-1346):
\* f"{x:.1f}" if x else "N/A"
station_metric(x) ==
    IF Truthy(x, 0) THEN [ text |-> "{:.1f}", shown |-> << Fmt1(Val(x)) >> ]
    ELSE [ text |-> "N/A", shown |-> << >> ]

\* the station's temperature metric: the Celsius value converted when it is
\* true (line 1338), then shown when the result is true (line 1339)
station_temperature_metric(temp_c) ==
    station_metric(IF Truthy(temp_c, 0) THEN celsius_to_fahrenheit(temp_c) ELSE None)

\* deque.append ignoring maxlen.
deque_append_Unbounded(buffer, maxlen, x) == Append(buffer, x)

\* deque.append with maxlen: the oldest message is dropped when full
deque_append(buffer, maxlen, x) ==
    LET all == Append(buffer, x)
    IN  IF Len(all) > maxlen THEN SubSeq(all, Len(all) - maxlen + 1, Len(all))
        ELSE all

\* a Python slice seq[start:] of a list
SliceFrom(seq, start) ==
    LET n == Len(seq)
        from == IF start < 0 THEN Max(n + start, 0)
                ELSE IF start > n THEN n ELSE start
    IN  SubSeq(seq, from + 1, n)

\* AzureIoTHubConsumer.get_latest_data: list(self.data_buffer)[-count:]
get_latest_data(buffer, count) == SliceFrom(buffer, 0 - count)

(***************************************************************************)
(* BatchManager (src/app.py, lines 390-494).  The table "batches" is a set *)
(* of entities, at most one per row key.                                   *)
(***************************************************************************)
ACTIVE_BATCH_ROW_KEY == "active"

\* datetime.isoformat() and datetime.fromisoformat(): the text of an aware
\* datetime, and the datetime the text denotes
isoformat(t) == [ iso |-> t ]
fromisoformat(text) == text.iso

\* the name a batch is stored under (line 459): the given name, or
\* "Batch-" with the start time when the given name is empty
BatchName(name, start_time) ==
    IF name # "" THEN [ text |-> name, stamp |-> None ]
    ELSE [ text |-> "Batch-", stamp |-> Some(start_time) ]

\* table_client.get_entity(partition_key="batch", row_key=key), which raises
\* when there is no such row
HasEntity(table, key) == \E e \in table : e.RowKey = key
get_entity(table, key) == CHOOSE e \in table : e.RowKey = key

\* table_client.upsert_entity(entity) in its default mode (merge): the
\* properties of the entity replace those of the stored row, the stored
\* properties it does not name stay (here end_time, None when not named)
upsert_entity(table, entity) ==
    LET key == entity.RowKey
        merged == IF HasEntity(table, key) /\ entity.end_time = None
                  THEN [ entity EXCEPT !.end_time = get_entity(table, key).end_time ]
                  ELSE entity
    IN  { e \in table : e.RowKey # key } \cup { merged }

\* get_active_batch returning the stored batch whatever its is_active flag
get_active_batch_IgnoresFlag(table) ==
    IF ~HasEntity(table, ACTIVE_BATCH_ROW_KEY) THEN None
    ELSE
        LET entity == get_entity(table, ACTIVE_BATCH_ROW_KEY) IN
        Some([ name |-> entity.name,
               season |-> entity.season,
               start_time |-> fromisoformat(entity.start_time),
               is_active |-> TRUE ])

\* BatchManager.get_active_batch (lines 420-445): None when the row is
\* missing (get_entity raises) or not active
get_active_batch(table) ==
    IF ~HasEntity(table, ACTIVE_BATCH_ROW_KEY) THEN None
    ELSE
        LET entity == get_entity(table, ACTIVE_BATCH_ROW_KEY) IN
        IF entity.is_active
        THEN Some([ name |-> entity.name,
                    season |-> entity.season,
                    start_time |-> fromisoformat(entity.start_time),
                    is_active |-> TRUE ])
        ELSE None

(***************************************************************************)
(* The components as constructed: AzureIoTHubConsumer.__init__ (lines      *)
(* 60-70), the empty table behind BatchManager with nobody inside one of   *)
(* its methods, and the engine before any reading has reached it.          *)
(***************************************************************************)
ConsumerInit ==
    /\ data_buffer = << >>
    /\ message_count = 0
    /\ last_message_time = None
    /\ is_running = FALSE
    /\ client = None
    /\ callback = None
    /\ receive_thread = None
    /\ threads = << >>
    /\ callback_calls = 0
    /\ last_call = "none"
    /\ latest = None

Users == { "user1", "user2" }

BatchManagerInit ==
    /\ batches = {}
    /\ users = [ u \in Users |-> [ pc |-> "idle", entity |-> None,
                                   active_batch |-> None ] ]

EngineIdle ==
    /\ temperature_f = None
    /\ humidity = None
    /\ ethylene_ppm = None
    /\ batch_start_time = None
    /\ season = "mid_season"
    /\ analysis = None

(***************************************************************************)
(* Bounds of the model and the inputs drawn within them.                   *)
(***************************************************************************)
\* readings are taken at each threshold and up to Span tenths either side
Span == 1
\* the clock may advance by at most MaxDrift tenths of an hour between the
\* two clock readings of one analyze_conditions call
MaxDrift == 1
\* the clock is followed for MaxClockAdvance tenths of an hour
MaxClockAdvance == 2

Around(b) == { b + 10 * k : k \in (0 - Span)..Span }

\* readings with a second decimal, which the messages round: just outside
\* the optimal temperatures and just below the low humidity and ethylene
\* warnings (none lies halfway between two tenths)
TemperatureInputs ==
    {None} \cup { Some(v) : v \in UNION { Around(params.temperature[k]) :
        k \in {"critical_low", "optimal_min", "optimal_max", "critical_high"} } }
    \cup { Some(params.temperature.optimal_max + 6),
           Some(params.temperature.optimal_min - 6) }
HumidityInputs ==
    {None} \cup { Some(v) : v \in UNION { Around(params.humidity[k]) :
        k \in {"critical_low", "warning_low", "optimal_min", "optimal_max"} } }
    \cup { Some(params.humidity.warning_low - 6) }
EthyleneInputs ==
    {None} \cup { Some(v) : v \in UNION { Around(params.ethylene[k]) :
        k \in {"warning_low", "optimal_min", "optimal_max", "critical_high"} } }
    \cup { Some(params.ethylene.warning_low - 6) }

\* the clock starts shortly before a ventilation is due for a batch started
\* at time 0; the other batch starts just after the clock's first value
ClockStart == params.ventilation.interval_hours * 10 - 6
ClockEnd == ClockStart + MaxClockAdvance
BatchStartInputs == { 0, ClockStart + 1 }
SeasonInputs == { "early_season" }

(***************************************************************************)
(* The state before the first call: main() (lines 1237-1277) hands the     *)
(* averaged readings and the active batch, if any, to analyze_conditions;  *)
(* without an active batch the season is 'mid_season'.                     *)
(***************************************************************************)
Init ==
    /\ temperature_f \in TemperatureInputs
    /\ humidity \in HumidityInputs
    /\ ethylene_ppm \in EthyleneInputs
    /\ \/ batch_start_time = None /\ season = "mid_season"
       \/ /\ batch_start_time \in { Some(b) : b \in BatchStartInputs }
          /\ season \in SeasonInputs
    /\ now = ClockStart
    /\ analysis = None
    /\ ConsumerInit
    /\ BatchManagerInit

\* one call of analyze_conditions, the clock advancing by d during the call
AnalyzeConditions(d) ==
    /\ now' = now + d
    /\ analysis' = Some(analyze_conditions(temperature_f, humidity,
                        ethylene_ppm, batch_start_time, season, now, now + d))
    /\ UNCHANGED <<temperature_f, humidity, ethylene_ppm, batch_start_time,
                   season>>
    /\ UNCHANGED <<consumerVars, batchVars>>

\* the clock is followed up to ClockEnd
Next == \E d \in 0..MaxDrift : now + d <= ClockEnd /\ AnalyzeConditions(d)

Spec == Init /\ [][Next]_vars

(***************************************************************************)
(* A second specification follows one batch over its whole ripening        *)
(* period.  The batch, if any, started at time 0; the clock starts one     *)
(* tenth of an hour before that (a clock behind the one that recorded the  *)
(* start) and moves through the instants of ClockPoints: around each       *)
(* ventilation threshold of the first cycle, around each stage threshold   *)
(* and the end of each season, and ExtraDays days beyond the longest       *)
(* season.  The readings are one typical and one physically impossible     *)
(* value per metric, or absent.                                            *)
(***************************************************************************)
ExtraDays == 1

SeasonDays == { params.ripening_time[s].total_days :
                    s \in DOMAIN params.ripening_time }
MaxSeasonDays == CHOOSE m \in SeasonDays : \A n \in SeasonDays : n <= m

VentPoints ==
    LET I == params.ventilation.interval_hours * 10 IN
    { 0, 2, 4, 5, I \div 2, I - 10, I - 8, I - 6, I - 5, I - 4, I - 1,
      I, I + 2, I + 4, I + 5 }

StagePoints ==
    UNION { { (n * 240 * pct) \div 100 - 1, (n * 240 * pct) \div 100 } :
                n \in SeasonDays, pct \in { 20, 50, 80, 100 } }

ClockPoints ==
    { -1 } \cup VentPoints \cup StagePoints
        \cup { (MaxSeasonDays + k) * 240 : k \in 1..ExtraDays }

ClockTemperatureInputs == { None, Some(7000), Some(-46000) }
ClockHumidityInputs == { None, Some(9200), Some(-100) }
ClockEthyleneInputs == { None, Some(5000), Some(-100) }
ClockSeasonInputs == { "early_season", "mid_season", "late_season", "winter" }

InitClock ==
    /\ temperature_f \in ClockTemperatureInputs
    /\ humidity \in ClockHumidityInputs
    /\ ethylene_ppm \in ClockEthyleneInputs
    /\ batch_start_time \in { None, Some(0) }
    /\ season \in ClockSeasonInputs
    /\ now = -1
    /\ analysis = None
    /\ ConsumerInit
    /\ BatchManagerInit

\* time passes between two calls: the clock moves to its next instant
LaterPoints(t) == { u \in ClockPoints : u > t }
NextPoint(t) == CHOOSE u \in LaterPoints(t) : \A w \in LaterPoints(t) : u <= w

Tick ==
    /\ LaterPoints(now) # {}
    /\ now' = NextPoint(now)
    /\ UNCHANGED <<temperature_f, humidity, ethylene_ppm, batch_start_time,
                   season, analysis>>
    /\ UNCHANGED <<consumerVars, batchVars>>

NextClock ==
    \/ \E d \in 0..MaxDrift :
           (now + d) \in ClockPoints /\ AnalyzeConditions(d)
    \/ Tick

SpecClock == InitClock /\ [][NextClock]_vars

(***************************************************************************)
(* The consumer: start(), stop(), the receive threads and the events they  *)
(* deliver, get_latest_data().                                             *)
(***************************************************************************)
\* the stream is followed over MaxEvents events and get_latest_data called
\* with counts up to MaxCount; start() and stop() are followed over
\* MaxThreads receive threads and MaxThreadEvents events
MaxEvents == 4
MaxCount == 3
MaxThreads == 2
MaxThreadEvents == 2
\* the constructor argument max_buffer_size (line 44), small here
max_buffer_size == 2

JsonObject(fields) == [ kind |-> "object", fields |-> fields ]
Event(body, device_id) ==
    [ body |-> body, device_id |-> device_id, enqueued_time |-> 0 ]

\* the events of the stream: bodies that do not parse, a full station-1
\* message, a message whose readings are all 0, one using the alternative
\* field names (with a 0 under the second name), and an empty object sent
\* by a device IoT Hub names in the system properties
EventInputs ==
    { Event([ kind |-> "empty" ], None),
      Event([ kind |-> "malformed" ], None),
      Event([ kind |-> "array" ], Some("station1")),
      Event(JsonObject([ deviceId |-> "station1", temperature |-> 2550,
                         humidity |-> 4600, ethylene_ppm |-> 50 ]), None),
      Event(JsonObject([ deviceId |-> "station2", temperature |-> 0,
                         humidity |-> 0, ethylene_ppm |-> 0 ]), None),
      Event(JsonObject([ device_id |-> "station2", temp |-> 0,
                         temperature_c |-> 2100, hum |-> 5000, c2h4 |-> 0 ]), None),
      Event(JsonObject(<< >>), Some("station1")) }

\* the events followed while threads start and stop: one that parses and
\* one that does not
ThreadEventInputs ==
    { e \in EventInputs : e.body.kind = "malformed" \/ e.device_id # None }

CallbackInputs == { None, Some("message_callback") }

InitConsumer ==
    /\ EngineIdle
    /\ now = 0
    /\ ConsumerInit
    /\ BatchManagerInit

\* start(callback) (lines 202-212): nothing but a warning while running;
\* otherwise the callback is kept, the flag set and a new thread started
Start(cb) ==
    /\ IF is_running
       THEN UNCHANGED <<callback, is_running, receive_thread, threads>>
       ELSE /\ Len(threads) < MaxThreads
            /\ callback' = cb
            /\ is_running' = TRUE
            /\ threads' = Append(threads, [ pc |-> "starting", closed |-> FALSE ])
            /\ receive_thread' = Some(Len(threads) + 1)
    /\ last_call' = "start"
    /\ UNCHANGED <<data_buffer, message_count, last_message_time, client,
                   callback_calls, latest>>
    /\ UNCHANGED <<engineVars, now, batchVars>>

\* stop() (lines 216-224): the flag is cleared and the client in
\* self.client, if there is one, is closed
Stop ==
    /\ is_running' = FALSE
    /\ threads' = IF client # None
                  THEN [ threads EXCEPT ![Val(client)].closed = TRUE ]
                  ELSE threads
    /\ last_call' = "stop"
    /\ UNCHANGED <<data_buffer, message_count, last_message_time, client,
                   callback, receive_thread, callback_calls, latest>>
    /\ UNCHANGED <<engineVars, now, batchVars>>

\* _receive_loop, lines 174-188: thread t creates its client, stores it in
\* self.client and blocks in receive() on it
CreateClient(t) ==
    /\ threads[t].pc = "starting"
    /\ client' = Some(t)
    /\ threads' = [ threads EXCEPT ![t].pc = "receiving" ]
    /\ UNCHANGED <<data_buffer, message_count, last_message_time, is_running,
                   callback, receive_thread, callback_calls, last_call, latest>>
    /\ UNCHANGED <<engineVars, now, batchVars>>

\* _receive_loop, lines 190-192: creating the client or receiving raises;
\* the flag is cleared and the thread ends
ReceiveLoopFails(t) ==
    /\ \/ threads[t].pc = "starting"
       \/ threads[t].pc = "receiving" /\ ~threads[t].closed
    /\ is_running' = FALSE
    /\ threads' = [ threads EXCEPT ![t].pc = "failed" ]
    /\ UNCHANGED <<data_buffer, message_count, last_message_time, client,
                   callback, receive_thread, callback_calls, last_call, latest>>
    /\ UNCHANGED <<engineVars, now, batchVars>>

\* receive() returns once its client has been closed, and the thread ends
ReceiveReturns(t) ==
    /\ threads[t].pc = "receiving"
    /\ threads[t].closed
    /\ threads' = [ threads EXCEPT ![t].pc = "done" ]
    /\ UNCHANGED <<data_buffer, message_count, last_message_time, is_running,
                   client, callback, receive_thread, callback_calls, last_call,
                   latest>>
    /\ UNCHANGED <<engineVars, now, batchVars>>

\* _on_event (lines 137-152), called by the receiving thread t with an event
\* of its open client
OnEvent(t, event) ==
    /\ threads[t].pc = "receiving"
    /\ ~threads[t].closed
    /\ now' = now + 1
    /\ LET parsed == parse_message(event, now) IN
       IF parsed # None
       THEN /\ data_buffer' = deque_append(data_buffer, max_buffer_size, Val(parsed))
            /\ message_count' = message_count + 1
            /\ last_message_time' = Some(now)
            /\ callback_calls' = IF callback # None
                                 THEN callback_calls + 1
                                 ELSE callback_calls
       ELSE UNCHANGED <<data_buffer, message_count, last_message_time,
                        callback_calls>>
    /\ UNCHANGED <<is_running, client, callback, receive_thread, threads,
                   last_call, latest>>
    /\ UNCHANGED <<engineVars, batchVars>>

\* get_latest_data(count) (line 236)
GetLatestData(count) ==
    /\ latest' = Some([ count |-> count,
                        result |-> get_latest_data(data_buffer, count) ])
    /\ UNCHANGED <<data_buffer, message_count, last_message_time, is_running,
                   client, callback, receive_thread, threads, callback_calls,
                   last_call>>
    /\ UNCHANGED <<engineVars, now, batchVars>>

\* start(), stop() and the receive threads
NextConsumer ==
    \/ \E cb \in CallbackInputs : Start(cb)
    \/ Stop
    \/ \E t \in DOMAIN threads : CreateClient(t)
    \/ \E t \in DOMAIN threads : ReceiveLoopFails(t)
    \/ \E t \in DOMAIN threads : ReceiveReturns(t)
    \/ \E t \in DOMAIN threads, event \in ThreadEventInputs :
           now < MaxThreadEvents /\ OnEvent(t, event)

SpecConsumer == InitConsumer /\ [][NextConsumer]_vars

\* the stream of events: the consumer after start(cb), its one thread
\* receiving
InitStream ==
    /\ EngineIdle
    /\ now = 0
    /\ data_buffer = << >>
    /\ message_count = 0
    /\ last_message_time = None
    /\ is_running = TRUE
    /\ client = Some(1)
    /\ callback \in CallbackInputs
    /\ receive_thread = Some(1)
    /\ threads = << [ pc |-> "receiving", closed |-> FALSE ] >>
    /\ callback_calls = 0
    /\ last_call = "start"
    /\ latest = None
    /\ BatchManagerInit

NextStream ==
    \/ \E t \in DOMAIN threads, event \in EventInputs :
           now < MaxEvents /\ OnEvent(t, event)
    \/ \E count \in 0..MaxCount : GetLatestData(count)

SpecStream == InitStream /\ [][NextStream]_vars

(***************************************************************************)
(* The batch manager used by several users of the page at once: each call  *)
(* of the table client is one step, so end_batch is two (get_entity, then  *)
(* upsert_entity).                                                         *)
(***************************************************************************)
\* the clock advances with each start_batch, up to MaxBatchStarts
MaxBatchStarts == 2

NameInputs == { "", "Lot-A" }
BatchSeasonInputs == { "early_season", "mid_season", "late_season" }

InitBatch ==
    /\ EngineIdle
    /\ now = 0
    /\ ConsumerInit
    /\ BatchManagerInit

\* start_batch(name, season) returning True (lines 453-467)
StartBatch(u, name, seas) ==
    /\ users[u].pc = "idle"
    /\ LET start_time == now
           entity == [ PartitionKey |-> "batch",
                       RowKey |-> ACTIVE_BATCH_ROW_KEY,
                       name |-> BatchName(name, start_time),
                       season |-> seas,
                       start_time |-> isoformat(start_time),
                       is_active |-> TRUE,
                       end_time |-> None ]
       IN  batches' = upsert_entity(batches, entity)
    /\ now' = now + 1
    /\ UNCHANGED users
    /\ UNCHANGED <<engineVars, consumerVars>>

\* end_batch, lines 480-483: the row is read (a missing row raises and
\* end_batch returns False, changing nothing)
EndBatchRead(u) ==
    /\ users[u].pc = "idle"
    /\ HasEntity(batches, ACTIVE_BATCH_ROW_KEY)
    /\ users' = [ users EXCEPT ![u].pc = "ending",
                    ![u].entity = Some(get_entity(batches, ACTIVE_BATCH_ROW_KEY)) ]
    /\ UNCHANGED <<batches, now>>
    /\ UNCHANGED <<engineVars, consumerVars>>

\* end_batch, lines 485-490: the entity read is marked inactive, given its
\* end time and written back; end_batch returns True
EndBatchUpsert(u) ==
    /\ users[u].pc = "ending"
    /\ LET entity == [ Val(users[u].entity) EXCEPT
                           !.is_active = FALSE,
                           !.end_time = Some(isoformat(now)) ]
       IN  batches' = upsert_entity(batches, entity)
    /\ users' = [ users EXCEPT ![u].pc = "idle", ![u].entity = None ]
    /\ UNCHANGED now
    /\ UNCHANGED <<engineVars, consumerVars>>

\* a page load: main reads the active batch (line 1146)
GetActiveBatch(u) ==
    /\ users[u].pc = "idle"
    /\ users' = [ users EXCEPT ![u].active_batch = get_active_batch(batches) ]
    /\ UNCHANGED <<batches, now>>
    /\ UNCHANGED <<engineVars, consumerVars>>

NextBatch ==
    \/ \E u \in Users, name \in NameInputs, seas \in BatchSeasonInputs :
           now < MaxBatchStarts /\ StartBatch(u, name, seas)
    \/ \E u \in Users : EndBatchRead(u)
    \/ \E u \in Users : EndBatchUpsert(u)
    \/ \E u \in Users : GetActiveBatch(u)

SpecBatch == InitBatch /\ [][NextBatch]_vars

(***************************************************************************)
(* Properties.  Res is the result of the last call; Temp, Hum and Eth are  *)
(* the three classifications of the readings that call was given.          *)
(***************************************************************************)
Called == analysis # None
Res == Val(analysis)
Temp == analyze_temperature(temperature_f)
Hum == analyze_humidity(humidity)
Eth == analyze_ethylene(ethylene_ppm)

Rank(sev) == IF sev = "critical" THEN 2 ELSE IF sev = "warning" THEN 1 ELSE 0
RankName(r) == IF r = 2 THEN "critical" ELSE IF r = 1 THEN "warning" ELSE "optimal"
MaxRank(S) == IF S = {} THEN 0 ELSE CHOOSE r \in S : \A q \in S : q <= r

\* C1: the status returned by analyze_conditions is the maximum of the three
\* per-metric severities under critical > warning > optimal/unknown:
\* critical iff some classifier returned critical, warning iff none returned
\* critical and some returned warning, optimal otherwise.
C1_StatusIsMaxSeverity ==
    Called =>
        LET sev == { Temp.status, Hum.status, Eth.status } IN
        /\ (Res.status = "critical") <=> ("critical" \in sev)
        /\ (Res.status = "warning") <=>
               ("critical" \notin sev /\ "warning" \in sev)
        /\ (Res.status = "optimal") <=>
               ("critical" \notin sev /\ "warning" \notin sev)

\* a call with a critical humidity after a warning temperature
C1_Witness ==
    /\ Called
    /\ Temp.status = "warning" /\ Hum.status = "critical"
    /\ Eth.status = "warning"
    /\ Res.status = "critical"

\* C2: an absent reading never changes the overall status: the status is the
\* maximum severity of the readings that are present, it is one of optimal,
\* warning, critical (never unknown), and with all three readings absent it
\* is optimal with no alert.
C2_AbsentNeverEscalates ==
    Called =>
        LET present ==
                (IF temperature_f # None THEN { Rank(Temp.status) } ELSE {})
                \cup (IF humidity # None THEN { Rank(Hum.status) } ELSE {})
                \cup (IF ethylene_ppm # None THEN { Rank(Eth.status) } ELSE {})
        IN  /\ Res.status \in { "optimal", "warning", "critical" }
            /\ Res.status = RankName(MaxRank(present))
            /\ (temperature_f = None /\ humidity = None /\ ethylene_ppm = None)
                   => (Res.status = "optimal" /\ Res.alerts = << >>)

\* a call with two readings absent and the third in its optimal range
C2_Witness ==
    /\ Called
    /\ temperature_f = None /\ ethylene_ppm = None
    /\ humidity # None /\ Hum.status = "optimal"
    /\ Res.status = "optimal"

\* C3 as stated: a reading exactly equal to a critical boundary is on the
\* unsafe side: temperature 86.0 is critical, temperature 40.0 is critical
\* while 40.1 is a warning, and humidity 80.0 is critical.
C3_BoundaryOnUnsafeSide ==
    Called =>
        /\ temperature_f = Some(8600) => Temp.status = "critical"
        /\ temperature_f = Some(4000) => Temp.status = "critical"
        /\ temperature_f = Some(4010) => Temp.status = "warning"
        /\ humidity = Some(8000) => Hum.status = "critical"

\* C3 amended: only the critical-high boundary is inclusive.  Temperature
\* 86.0 is critical; temperature 40.0 is a warning, like 40.1, and only a
\* temperature below 40 (39.9) is critical; humidity 80.0 is a warning and
\* only a humidity below 80 (79.9) is critical.
C3_Amended ==
    Called =>
        /\ temperature_f = Some(8600) =>
               (Temp.status = "critical" /\ Res.status = "critical")
        /\ temperature_f = Some(8590) => Temp.status = "warning"
        /\ temperature_f = Some(4000) => Temp.status = "warning"
        /\ temperature_f = Some(4010) => Temp.status = "warning"
        /\ temperature_f = Some(3990) =>
               (Temp.status = "critical" /\ Res.status = "critical")
        /\ humidity = Some(8000) => Hum.status = "warning"
        /\ humidity = Some(7990) =>
               (Hum.status = "critical" /\ Res.status = "critical")

\* a call with temperature exactly 40.0 and humidity exactly 80.0
C3_Witness ==
    /\ Called
    /\ temperature_f = Some(4000) /\ humidity = Some(8000)
    /\ ethylene_ppm = None
    /\ Res.status = "warning" /\ Len(Res.alerts) = 2

\* C4 as stated: humidity strictly between 80 and 90 is a warning with one
\* warning alert, humidity from 90.0 to 95.0 is optimal with no alert, and
\* humidity above 95 is a warning.
C4_HumidityBands ==
    (Called /\ humidity # None) =>
        LET h == Val(humidity) IN
        /\ (8000 < h /\ h < 9000) =>
               /\ Hum.status = "warning"
               /\ Len(Hum.alerts) = 1 /\ Hum.alerts[1].type = "warning"
        /\ (9000 <= h /\ h <= 9500) =>
               (Hum.status = "optimal" /\ Hum.alerts = << >>)
        /\ h > 9500 => Hum.status = "warning"

\* C4 amended: the warning band ends at warning_low 85, not at 90.  Humidity
\* strictly between 80 and 85 is a warning with one warning alert, humidity
\* from 85.0 to 95.0 is optimal with no alert, and humidity above 95 is a
\* warning.
C4_Amended ==
    (Called /\ humidity # None) =>
        LET h == Val(humidity) IN
        /\ (8000 < h /\ h < 8500) =>
               /\ Hum.status = "warning"
               /\ Len(Hum.alerts) = 1 /\ Hum.alerts[1].type = "warning"
        /\ (8500 <= h /\ h <= 9500) =>
               (Hum.status = "optimal" /\ Hum.alerts = << >>)
        /\ h > 9500 =>
               /\ Hum.status = "warning"
               /\ Len(Hum.alerts) = 1 /\ Hum.alerts[1].type = "warning"

\* a call with humidity between 85 and 90 and nothing else amiss
C4_Witness ==
    /\ Called
    /\ humidity # None /\ 8500 <= Val(humidity) /\ Val(humidity) < 9000
    /\ Temp.status = "optimal" /\ Eth.status = "optimal"
    /\ Res.status = "optimal" /\ Res.alerts = << >>

\* C5: the temperature bands: >= 86 critical, strictly between 68 and 86
\* warning, 60 to 68 inclusive optimal with no alert, strictly between 40
\* and 60 warning, below 40 critical; one band, hence at most one alert, per
\* value.
C5_TemperatureBands ==
    (Called /\ temperature_f # None) =>
        LET t == Val(temperature_f) IN
        /\ t >= 8600 => Temp.status = "critical"
        /\ (6800 < t /\ t < 8600) => Temp.status = "warning"
        /\ (6000 <= t /\ t <= 6800) =>
               (Temp.status = "optimal" /\ Temp.alerts = << >>)
        /\ (4000 < t /\ t < 6000) => Temp.status = "warning"
        /\ t < 4000 => Temp.status = "critical"
        /\ Len(Temp.alerts) <= 1
        /\ Temp.status \in { "critical", "warning" } =>
               (Len(Temp.alerts) = 1 /\ Temp.alerts[1].type = Temp.status)

\* a call with temperature 40.1, just above the critical-low boundary
C5_Witness ==
    /\ Called
    /\ temperature_f = Some(4010)
    /\ Temp.status = "warning"
    /\ Hum.status = "optimal" /\ Eth.status = "optimal"
    /\ Res.status = "warning"

\* C6: the ethylene classifier never returns critical: above critical-high
\* it returns warning, below warning-low it returns warning, and ethylene
\* alone never makes the overall status critical.
C6_EthyleneNeverCritical ==
    Called =>
        /\ Eth.status # "critical"
        /\ \A i \in 1..Len(Eth.alerts) : Eth.alerts[i].type # "critical"
        /\ (ethylene_ppm # None /\ Val(ethylene_ppm) > 15000) =>
               Eth.status = "warning"
        /\ (ethylene_ppm # None /\ Val(ethylene_ppm) < 500) =>
               Eth.status = "warning"
        /\ (Temp.status # "critical" /\ Hum.status # "critical") =>
               Res.status # "critical"

\* a call with ethylene 150.1 and the other two readings in range
C6_Witness ==
    /\ Called
    /\ ethylene_ppm = Some(15010)
    /\ Temp.status = "optimal" /\ Hum.status = "optimal"
    /\ Res.status = "warning"

\* C7: ethylene at or above warning-low 5 and below optimal-min 10 is
\* classified optimal with no alert and exactly one recommendation, of type
\* info and priority low; the overall status is what temperature and
\* humidity alone make it.
C7_EthyleneLowBand ==
    (Called /\ ethylene_ppm # None
        /\ 500 <= Val(ethylene_ppm) /\ Val(ethylene_ppm) < 1000) =>
        /\ Eth.status = "optimal"
        /\ Eth.alerts = << >>
        /\ Len(Eth.recommendations) = 1
        /\ Eth.recommendations[1].type = "info"
        /\ Eth.recommendations[1].priority = "low"
        /\ Res.status = RankName(MaxRank({ Rank(Temp.status), Rank(Hum.status) }))

\* a call with ethylene exactly 5.0 whose result carries the low-priority
\* recommendation
C7_Witness ==
    /\ Called
    /\ ethylene_ppm = Some(500)
    /\ Temp.status = "optimal" /\ Hum.status = "optimal"
    /\ Res.status = "optimal"
    /\ \E i \in 1..Len(Res.recommendations) :
           Res.recommendations[i].priority = "low"
               /\ Res.recommendations[i] = Eth.recommendations[1]

\* the recommendations of the three classifiers, in the order of the calls
PerMetricRecs ==
    Temp.recommendations \o Hum.recommendations \o Eth.recommendations

\* C8: in the result the alerts are the temperature alerts, then the
\* humidity alerts, then the ethylene alerts, and the per-metric
\* recommendations follow one another in the same order (after the
\* all-optimal recommendation, if there is one), whatever the severities.
C8_FixedOrder ==
    Called =>
        /\ Res.alerts = Temp.alerts \o Hum.alerts \o Eth.alerts
        /\ \E k \in 0..1 :
               /\ k + Len(PerMetricRecs) <= Len(Res.recommendations)
               /\ SubSeq(Res.recommendations, k + 1, k + Len(PerMetricRecs))
                      = PerMetricRecs
               /\ k = 1 => Res.recommendations[1] = AllOptimalRec

\* a call in which all three metrics alert and the humidity alert is the
\* most severe
C8_Witness ==
    /\ Called
    /\ Temp.status = "warning" /\ Hum.status = "critical"
    /\ Eth.status = "warning"
    /\ Len(Res.alerts) = 3
    /\ Res.alerts[1].type = "warning" /\ Res.alerts[2].type = "critical"
    /\ Len(Res.recommendations) >= 3

\* the number of all-optimal recommendations in a list
CountAllOptimal(recs) ==
    Cardinality({ i \in 1..Len(recs) : recs[i] = AllOptimalRec })

\* C9: the all-optimal recommendation (type success, priority info) is at
\* index 0 of the recommendations exactly when the merged status is optimal
\* and there is no alert; otherwise the list holds no such entry; it never
\* occurs twice.
C9_AllOptimalFirst ==
    Called =>
        /\ AllOptimalRec.type = "success" /\ AllOptimalRec.priority = "info"
        /\ IF Res.status = "optimal" /\ Res.alerts = << >>
           THEN /\ Len(Res.recommendations) >= 1
                /\ Res.recommendations[1] = AllOptimalRec
                /\ CountAllOptimal(Res.recommendations) = 1
           ELSE CountAllOptimal(Res.recommendations) = 0

\* an optimal call whose list also holds an ethylene recommendation and a
\* ventilation reminder
C9_Witness ==
    /\ Called
    /\ Res.status = "optimal" /\ Res.alerts = << >>
    /\ Len(Res.recommendations) = 3
    /\ Res.recommendations[1] = AllOptimalRec
    /\ Res.recommendations[2].priority = "low"
    /\ Res.recommendations[3].type = "action"

OneLevelOneAlert(c) ==
    /\ c.status \in { "optimal", "warning", "critical" }
    /\ Len(c.alerts) <= 1
    /\ c.status \in { "warning", "critical" } =>
           /\ Len(c.alerts) = 1
           /\ c.alerts[1].type = c.status
           /\ Len(c.recommendations) >= 1
    /\ c.status = "optimal" => c.alerts = << >>

\* C10: for a reading that is present, each classifier emits one severity
\* level; when the level is warning or critical it emits exactly one alert,
\* whose type is that level, and at least one recommendation; it never emits
\* more than one alert.
C10_OneLevelOneAlert ==
    Called =>
        /\ temperature_f # None => OneLevelOneAlert(Temp)
        /\ humidity # None => OneLevelOneAlert(Hum)
        /\ ethylene_ppm # None => OneLevelOneAlert(Eth)

\* a call in which the three readings are present and too high
C10_Witness ==
    /\ Called
    /\ temperature_f = Some(8600) /\ humidity = Some(9510)
    /\ ethylene_ppm = Some(15010)
    /\ Res.status = "critical"
    /\ Len(Res.alerts) = 3 /\ Len(Res.recommendations) >= 3

InRange(x, lo, hi) == x # None /\ lo <= Val(x) /\ Val(x) <= hi

\* C11 as stated: for a reading inside the optimal range of its metric
\* (temperature 60-68, humidity 90-95, ethylene 10-100) the classifier
\* returns optimal, no alert, and an affirmative in-range message for that
\* metric.
C11_InRangeAffirmative ==
    Called =>
        /\ InRange(temperature_f, 6000, 6800) =>
               /\ Temp.status = "optimal" /\ Temp.alerts = << >>
               /\ Len(Temp.recommendations) >= 1
        /\ InRange(humidity, 9000, 9500) =>
               /\ Hum.status = "optimal" /\ Hum.alerts = << >>
               /\ Len(Hum.recommendations) >= 1
        /\ InRange(ethylene_ppm, 1000, 10000) =>
               /\ Eth.status = "optimal" /\ Eth.alerts = << >>
               /\ Len(Eth.recommendations) >= 1

\* C11 amended: for a reading inside the optimal range of its metric the
\* classifier returns optimal, no alert and no message at all; the only
\* affirmative message is the all-optimal recommendation of
\* analyze_conditions, present when the three readings are in range.
C11_Amended ==
    Called =>
        /\ InRange(temperature_f, 6000, 6800) =>
               Temp = Classified("optimal", << >>, << >>)
        /\ InRange(humidity, 9000, 9500) =>
               Hum = Classified("optimal", << >>, << >>)
        /\ InRange(ethylene_ppm, 1000, 10000) =>
               Eth = Classified("optimal", << >>, << >>)
        /\ ( /\ InRange(temperature_f, 6000, 6800)
             /\ InRange(humidity, 9000, 9500)
             /\ InRange(ethylene_ppm, 1000, 10000) ) =>
               /\ Res.status = "optimal" /\ Res.alerts = << >>
               /\ Res.recommendations[1] = AllOptimalRec
               /\ batch_start_time = None =>
                      Res.recommendations = << AllOptimalRec >>

\* a call with the three readings at the lower end of their optimal ranges
\* and no batch
C11_Witness ==
    /\ Called
    /\ temperature_f = Some(6000) /\ humidity = Some(9000)
    /\ ethylene_ppm = Some(1000)
    /\ batch_start_time = None
    /\ Res.recommendations = << AllOptimalRec >>

\* C12: the progress_percent of every result lies in [0, 100], also when
\* the clock is behind the batch start, which counts as elapsed 0 (progress
\* 0, stage Green).
C12_ProgressInRange ==
    Called =>
        /\ PctLeq(Percent(0), Res.progress_percent)
        /\ PctLeq(Res.progress_percent, Percent(100))
        /\ (batch_start_time # None /\ now < Val(batch_start_time)) =>
               /\ Res.progress_percent = Percent(0)
               /\ Res.ripening_stage = "Green"

(***************************************************************************)
(* Properties of the progress estimate and the ventilation reminder, under *)
(* SpecClock.  In a step that is a call, now is the clock reading the      *)
(* progress is computed from and now' the reading of the ventilation       *)
(* check.                                                                  *)
(***************************************************************************)
AnalyzeStep == \E d \in 0..MaxDrift : AnalyzeConditions(d)
BatchActive == batch_start_time # None
Elapsed(t) == t - Val(batch_start_time)

\* the total ripening time, in tenths of an hour, the claims give a season
ClaimedTotal(seas) ==
    CASE seas = "early_season" -> 1440
      [] seas = "mid_season" -> 1200
      [] seas = "late_season" -> 960
      [] OTHER -> 1200

\* C13: for a fixed batch start and season the progress_percent of
\* successive calls never decreases as the clock advances, and it is 100 for
\* every elapsed time at or beyond the season's total hours.
C13_ProgressMonotone ==
    /\ [][ (Called /\ Called') =>
               PctLeq(Res.progress_percent, Res'.progress_percent) ]_vars
    /\ [][ (AnalyzeStep /\ BatchActive
               /\ Elapsed(now) >= ClaimedTotal(season)) =>
               Res'.progress_percent = Percent(100) ]_vars

\* a call a day after the end of the longest season
C13_Witness ==
    /\ Called /\ BatchActive
    /\ season = "early_season"
    /\ Elapsed(now) = 1440 + 240
    /\ Res.progress_percent = Percent(100)
    /\ Res.time_remaining = Some(0)

StageRank(stage) ==
    CASE stage = "Green" -> 0
      [] stage = "Breaking" -> 1
      [] stage = "Ripe" -> 2
      [] stage = "Ready-to-Eat" -> 3

\* the stage the claim gives a progress
ClaimedStage(p) ==
    IF PctLess(p, 20) THEN "Green"
    ELSE IF PctLess(p, 50) THEN "Breaking"
    ELSE IF PctLess(p, 80) THEN "Ripe"
    ELSE "Ready-to-Eat"

\* C14: with an active batch the stage is a function of the progress alone
\* (< 20 Green, < 50 Breaking, < 80 Ripe, else Ready-to-Eat); for the mid
\* season an elapsed time of exactly 24 h gives Breaking and 23.9 h gives
\* Green; and the stage of successive calls never moves backwards.
C14_StageFromProgress ==
    /\ [][ (Called' /\ BatchActive') =>
               Res'.ripening_stage = ClaimedStage(Res'.progress_percent) ]_vars
    /\ [][ (AnalyzeStep /\ BatchActive /\ season = "mid_season") =>
               /\ Elapsed(now) = 240 => Res'.ripening_stage = "Breaking"
               /\ Elapsed(now) = 239 => Res'.ripening_stage = "Green" ]_vars
    /\ [][ (Called /\ Called') =>
               StageRank(Res.ripening_stage) <= StageRank(Res'.ripening_stage)
       ]_vars

\* a mid-season call exactly 24 h after the batch start
C14_Witness ==
    /\ Called /\ BatchActive
    /\ season = "mid_season"
    /\ Elapsed(now) = 240
    /\ Res.progress_percent = [ num |-> 2400, den |-> 120 ]
    /\ Res.ripening_stage = "Breaking"
    /\ Res.time_remaining = Some(960)

PctEq(a, b) == PctLeq(a, b) /\ PctLeq(b, a)

\* C15: the estimator's total duration is 144 h for early_season, 120 h for
\* mid_season, 96 h for late_season, and 120 h for any other season value,
\* for which the call returns a result like for any other.
C15_SeasonTotals ==
    [][ (AnalyzeStep /\ BatchActive) =>
            LET total == ClaimedTotal(season)
                raw == [ num |-> 100 * Elapsed(now), den |-> total ]
            IN  /\ Called'
                /\ Res'.time_remaining = Some(Max(0, total - Elapsed(now)))
                /\ IF Elapsed(now) >= total
                   THEN Res'.progress_percent = Percent(100)
                   ELSE PctEq(Res'.progress_percent, raw) ]_vars

\* a call with a season that is not in the table, 60 h after the start
C15_Witness ==
    /\ Called /\ BatchActive
    /\ season = "winter"
    /\ Elapsed(now) = 600
    /\ Res.time_remaining = Some(600)
    /\ PctEq(Res.progress_percent, Percent(50))
    /\ Res.ripening_stage = "Ripe"

VentReminders == { VentDueSoonRec, VentRecentRec }
RecSet(recs) == { recs[i] : i \in DOMAIN recs }

\* C16: with no active batch (batch_start is None) analyze_conditions returns
\* stage Green, progress 0 and time remaining None, whatever the readings and
\* the season, and its recommendations hold no ventilation reminder.
C16_NoBatchDefaults ==
    (Called /\ ~BatchActive) =>
        /\ Res.ripening_stage = "Green"
        /\ Res.progress_percent = Percent(0)
        /\ Res.time_remaining = None
        /\ RecSet(Res.recommendations) \cap VentReminders = {}

\* a call without a batch, with an unlisted season and an absent reading, at
\* a clock reading that would be in the last half hour of a cycle begun at 0
C16_Witness ==
    /\ Called /\ ~BatchActive
    /\ season = "winter"
    /\ humidity = None /\ temperature_f # None
    /\ now = params.ventilation.interval_hours * 10 - 1
    /\ Res.ripening_stage = "Green"
    /\ Res.time_remaining = None

\* the position in the ventilation cycle at clock reading t, in tenths of an
\* hour
VentCycle == params.ventilation.interval_hours * 10
Phase(t) == Elapsed(t) % VentCycle
DueSoonIn(r) == VentDueSoonRec \in RecSet(r.recommendations)
RecentIn(r) == VentRecentRec \in RecSet(r.recommendations)

\* C17 as stated: with phase = elapsed_hours mod 12, the 'ventilation due
\* soon' recommendation is emitted for every phase >= 11, throughout the last
\* hour of each 12-hour cycle (for example at 11.2 h and 11.6 h).
C17_DueSoonLastHour ==
    [][ (AnalyzeStep /\ BatchActive /\ Phase(now') >= VentCycle - 10) =>
            DueSoonIn(Res') ]_vars

\* C17 amended: the 'ventilation due soon' recommendation is emitted exactly
\* for phase >= 11.5, the last half hour of each 12-hour cycle (for example
\* at 11.6 h); for 11 <= phase < 11.5 (for example at 11.2 h) the result
\* holds no ventilation reminder.
C17_Amended ==
    [][ (AnalyzeStep /\ BatchActive) =>
            /\ DueSoonIn(Res') <=> (Phase(now') >= VentCycle - 5)
            /\ (Phase(now') >= VentCycle - 10 /\ Phase(now') < VentCycle - 5) =>
                   RecSet(Res'.recommendations) \cap VentReminders = {} ]_vars

\* a call 11.6 h after the batch start
C17_Witness ==
    /\ Called /\ BatchActive
    /\ season = "mid_season"
    /\ Elapsed(now) = 116
    /\ Res.time_remaining = Some(1200 - 116)
    /\ DueSoonIn(Res)
    /\ ~RecentIn(Res)

ReminderCount(r) ==
    Cardinality({ i \in DOMAIN r.recommendations :
                      r.recommendations[i] \in VentReminders })

\* C18: a call holds at most one ventilation reminder, never both: the
\* 'recently completed' message when phase < 0.5 (e.g. 12.2 h after the
\* start), none in the middle of the cycle (e.g. at 6.0 h), and none, with a
\* result returned all the same, when batch_start is None.
C18_AtMostOneReminder ==
    [][ AnalyzeStep =>
            /\ Called'
            /\ ReminderCount(Res') <= 1
            /\ ~(DueSoonIn(Res') /\ RecentIn(Res'))
            /\ ~BatchActive => ReminderCount(Res') = 0
            /\ BatchActive =>
                   /\ RecentIn(Res') <=> (Phase(now') < 5)
                   /\ (Phase(now') >= 5 /\ Phase(now') < VentCycle - 5) =>
                          ReminderCount(Res') = 0 ]_vars

\* a call 12.2 h after the batch start
C18_Witness ==
    /\ Called /\ BatchActive
    /\ season = "mid_season"
    /\ Elapsed(now) = VentCycle + 2
    /\ Res.time_remaining = Some(1200 - (VentCycle + 2))
    /\ RecentIn(Res)
    /\ ReminderCount(Res) = 1

\* the readings a sensor can physically report: a temperature at or above
\* absolute zero (-459.67 F), a relative humidity within 0..100 %, a
\* concentration that is not negative
Possible(metric, x) ==
    CASE metric = "temperature" -> Val(x) >= -45967
      [] metric = "humidity" -> Val(x) >= 0 /\ Val(x) <= 10000
      [] OTHER -> Val(x) >= 0
Impossible(metric, x) == x # None /\ ~Possible(metric, x)
Sanitized(metric, x) == IF Impossible(metric, x) THEN None ELSE x

\* C20: a reading outside the physically possible range (a negative humidity,
\* a temperature below absolute zero) is classified 'unknown' with no alert
\* and no recommendation, as if it were absent, and the overall status is the
\* one the call gives with that reading absent.
C20_OutOfRangeIsUnknown ==
    Called =>
        /\ Impossible("temperature", temperature_f) =>
               Temp = Classified("unknown", << >>, << >>)
        /\ Impossible("humidity", humidity) =>
               Hum = Classified("unknown", << >>, << >>)
        /\ Impossible("ethylene", ethylene_ppm) =>
               Eth = Classified("unknown", << >>, << >>)
        /\ Res.status =
               MergeStatus(MergeStatus(MergeStatus("optimal",
                   analyze_temperature(Sanitized("temperature", temperature_f)).status),
                   analyze_humidity(Sanitized("humidity", humidity)).status),
                   analyze_ethylene(Sanitized("ethylene", ethylene_ppm)).status)

(***************************************************************************)
(* Properties of the consumer, under SpecStream and SpecConsumer.          *)
(***************************************************************************)
Buffered == { data_buffer[i] : i \in DOMAIN data_buffer }

\* the value under the first of the names that the object has, None when it
\* has none of them
FirstPresent(message, names) ==
    IF \A i \in DOMAIN names : names[i] \notin DOMAIN message THEN None
    ELSE LET i == CHOOSE k \in DOMAIN names :
                     /\ names[k] \in DOMAIN message
                     /\ \A j \in 1..(k - 1) : names[j] \notin DOMAIN message
         IN  Some(message[names[i]])

\* C21: a sensor field present with the value 0 is never treated as absent:
\* each parsed message holds, for every sensor, the value of the field the
\* message carries it under, 0 included, and None only when the message has
\* none of the field names; the conversion to Fahrenheit and the station
\* metrics show 'N/A' only for None.
C21_ZeroIsNotAbsent ==
    \A m \in Buffered :
        /\ m.temperature_c =
               FirstPresent(m.raw_data, << "temperature", "temp", "temperature_c" >>)
        /\ m.humidity = FirstPresent(m.raw_data, << "humidity", "hum" >>)
        /\ m.ethylene_ppm =
               FirstPresent(m.raw_data, << "ethylene_ppm", "ethylene", "c2h4" >>)
        /\ (celsius_to_fahrenheit(m.temperature_c) = None) <=> (m.temperature_c = None)
        /\ (station_temperature_metric(m.temperature_c).text = "N/A")
               <=> (m.temperature_c = None)
        /\ (station_metric(m.humidity).text = "N/A") <=> (m.humidity = None)
        /\ (station_metric(m.ethylene_ppm).text = "N/A") <=> (m.ethylene_ppm = None)

(***************************************************************************)
(* Properties of the classifiers' messages, under Spec.                    *)
(***************************************************************************)
\* shown (in tenths) is v (in hundredths) rounded to one decimal place
RoundedTo1(shown, v) == (10 * shown - v) \in -5..5

AlertsShow(classified, reading) ==
    \A i \in DOMAIN classified.alerts :
        classified.alerts[i].type \in { "warning", "critical" } =>
            /\ reading # None
            /\ RoundedTo1(classified.alerts[i].message.shown[1], Val(reading))

\* the recommendations of a classification with the given text
RecsWithText(classified, text) ==
    { classified.recommendations[i].message :
          i \in { k \in DOMAIN classified.recommendations :
                      classified.recommendations[k].message.text = text } }

\* C22: for a present value, every warning or critical alert embeds the
\* observed value rounded to one decimal place, and every 'reduce by' or
\* 'increase by' recommendation embeds the difference, which is not
\* negative, between the observed value and the optimal boundary to reach.
C22_MessagesEmbedValues ==
    Called =>
        /\ AlertsShow(Temp, temperature_f)
        /\ AlertsShow(Hum, humidity)
        /\ AlertsShow(Eth, ethylene_ppm)
        /\ \A m \in RecsWithText(Temp,
                 "Reduce temperature by {(temp_f - optimal_max):.1f}F for optimal ripening") :
               LET delta == Val(temperature_f) - params.temperature.optimal_max
               IN  delta >= 0 /\ Len(m.shown) = 1 /\ RoundedTo1(m.shown[1], delta)
        /\ \A m \in RecsWithText(Temp,
                 "Increase temperature by {(optimal_min - temp_f):.1f}F for faster ripening") :
               LET delta == params.temperature.optimal_min - Val(temperature_f)
               IN  delta >= 0 /\ Len(m.shown) = 1 /\ RoundedTo1(m.shown[1], delta)
        /\ \A m \in RecsWithText(Hum,
                 "Increase humidity by {(optimal_min - humidity):.1f}% to prevent moisture loss") :
               LET delta == params.humidity.optimal_min - Val(humidity)
               IN  delta >= 0 /\ Len(m.shown) = 1 /\ RoundedTo1(m.shown[1], delta)

\* a call with 68.06 F and 84.94 %: the alerts show 68.1 and 84.9, the
\* recommendations 'reduce by 0.1' and 'increase by 5.1'
C22_Witness ==
    /\ Called
    /\ temperature_f = Some(params.temperature.optimal_max + 6)
    /\ humidity = Some(params.humidity.warning_low - 6)
    /\ Temp.alerts[1].message.shown[1] = 681
    /\ Temp.recommendations[1].message.shown = << 1 >>
    /\ Hum.alerts[1].message.shown[1] = 849
    /\ Hum.recommendations[1].message.shown = << 51 >>
    /\ Res.alerts = Temp.alerts \o Hum.alerts \o Eth.alerts

\* C23: for each of the three metrics, classifying an absent (None) value
\* returns severity 'unknown' with an empty alert list and an empty
\* recommendation list.
C23_AbsentIsUnknown ==
    Called =>
        /\ temperature_f = None => Temp = Classified("unknown", << >>, << >>)
        /\ humidity = None => Hum = Classified("unknown", << >>, << >>)
        /\ ethylene_ppm = None => Eth = Classified("unknown", << >>, << >>)

\* a call with all three readings absent
C23_Witness ==
    /\ Called
    /\ temperature_f = None /\ humidity = None /\ ethylene_ppm = None
    /\ Temp.status = "unknown" /\ Hum.status = "unknown" /\ Eth.status = "unknown"
    /\ Res.status = "optimal"
    /\ Res.alerts = << >>

(***************************************************************************)
(* Properties of the batch manager, under SpecBatch.                       *)
(***************************************************************************)
ActiveEntities == { e \in batches : e.is_active }
StartBatchStep == \E u \in Users, name \in NameInputs, seas \in BatchSeasonInputs :
                      StartBatch(u, name, seas)
EndBatchStep == \E u \in Users : EndBatchUpsert(u)

\* C24: a batch goes none -> active -> ended.  After a successful
\* start_batch(name, season), get_active_batch returns a batch with that
\* season and the start time recorded at the start; what it returns changes
\* only with a successful start_batch or end_batch, not with reads; after a
\* successful end_batch it returns None; there is never more than one active
\* batch.
C24_BatchLifecycle ==
    /\ [](Cardinality(ActiveEntities) <= 1)
    /\ [][ \A u \in Users, name \in NameInputs, seas \in BatchSeasonInputs :
               StartBatch(u, name, seas) =>
                   LET b == get_active_batch(batches') IN
                   /\ b # None
                   /\ Val(b).season = seas
                   /\ Val(b).start_time = now
                   /\ name # "" => Val(b).name.text = name ]_vars
    /\ [][ get_active_batch(batches') # get_active_batch(batches) =>
               (StartBatchStep \/ EndBatchStep) ]_vars
    /\ [][ EndBatchStep => get_active_batch(batches') = None ]_vars

\* user1 saw the batch started at time 0 for the late season on a page
\* load; it has since been ended, and get_active_batch returns None
C24_Witness ==
    /\ users["user1"].active_batch # None
    /\ Val(users["user1"].active_batch).season = "late_season"
    /\ Val(users["user1"].active_batch).start_time = 0
    /\ HasEntity(batches, ACTIVE_BATCH_ROW_KEY)
    /\ get_entity(batches, ACTIVE_BATCH_ROW_KEY).start_time = isoformat(0)
    /\ get_entity(batches, ACTIVE_BATCH_ROW_KEY).end_time # None
    /\ get_active_batch(batches) = None
    /\ \A u \in Users : users[u].pc = "idle"

\* C25: with several users acting at once, a batch just started is not lost
\* or replaced by a stale entity: an end_batch only ever ends the batch it
\* read, so the row it writes back over is the row it read.
C25_NewBatchNotLost ==
    [][ \A u \in Users :
            EndBatchUpsert(u) =>
                LET stored == get_entity(batches, ACTIVE_BATCH_ROW_KEY)
                    read == Val(users[u].entity)
                IN  /\ stored.start_time = read.start_time
                    /\ stored.name = read.name
                    /\ stored.season = read.season ]_vars

\* C26: get_latest_data(count) returns at most count messages: the count
\* most recently buffered ones in arrival order, all of them when fewer are
\* buffered, for every count >= 0, count = 0 included.
C26_AtMostCount ==
    [][ \A count \in 0..MaxCount :
            GetLatestData(count) =>
                LET result == Val(latest').result
                    n == Len(data_buffer)
                    k == IF count < n THEN count ELSE n
                IN  /\ Len(result) <= count
                    /\ result = SubSeq(data_buffer, n - k + 1, n) ]_vars

\* C27: stop() stops receiving: once stop() has returned, and until start()
\* is called again, no message is appended to the buffer and message_count
\* does not change, however stop() interleaved with the receive thread.
C27_StopStopsReceiving ==
    [][ (last_call = "stop" /\ last_call' = "stop") =>
            UNCHANGED <<data_buffer, message_count>> ]_vars

Alive(t) == threads[t].pc \in { "starting", "receiving" }
Receiving(t) == threads[t].pc = "receiving" /\ ~threads[t].closed

\* C30: over any sequence of start() and stop() calls at most one receive
\* thread is receiving at any time, and is_running is true only while a
\* receive thread started by start() is alive.
C30_OneReceiveThread ==
    /\ Cardinality({ t \in DOMAIN threads : Receiving(t) }) <= 1
    /\ is_running => \E t \in DOMAIN threads : Alive(t)

\* the prefix of seq without its last element, and the last k of seq
Front(seq) == SubSeq(seq, 1, Len(seq) - 1)
LastOf(seq, k) == SubSeq(seq, Len(seq) - k + 1, Len(seq))
Min(a, b) == IF a <= b THEN a ELSE b

\* C28: the buffer never holds more than max_buffer_size messages and holds
\* the most recent min(message_count, max_buffer_size) parsed messages in
\* arrival order; message_count never decreases and grows by one with each
\* event that parses; an event that does not parse changes neither the
\* buffer, message_count nor last_message_time and calls no callback.
C28_BufferBounded ==
    /\ [](/\ Len(data_buffer) <= max_buffer_size
          /\ Len(data_buffer) = Min(message_count, max_buffer_size)
          /\ \A i \in 1..(Len(data_buffer) - 1) :
                 data_buffer[i].timestamp < data_buffer[i + 1].timestamp)
    /\ [][ message_count' >= message_count ]_vars
    /\ [][ \A t \in DOMAIN threads, event \in EventInputs :
               OnEvent(t, event) =>
                   IF event.body.kind = "object"
                   THEN /\ message_count' = message_count + 1
                        /\ data_buffer' # << >>
                        /\ data_buffer'[Len(data_buffer')].timestamp = now
                        /\ data_buffer'[Len(data_buffer')].raw_data = event.body.fields
                        /\ last_message_time' = Some(now)
                        /\ Front(data_buffer') =
                               LastOf(data_buffer, Len(data_buffer') - 1)
                        /\ callback_calls' =
                               callback_calls + (IF callback # None THEN 1 ELSE 0)
                   ELSE UNCHANGED <<data_buffer, message_count,
                                    last_message_time, callback_calls>> ]_vars

\* four events, the third of which did not parse: the buffer holds the
\* second and the fourth, the first has been dropped
C28_Witness ==
    /\ now = 4
    /\ message_count = max_buffer_size + 1
    /\ Len(data_buffer) = max_buffer_size
    /\ data_buffer[1].timestamp = 1
    /\ data_buffer[max_buffer_size].timestamp = 3
    /\ last_message_time = Some(3)
    /\ callback # None /\ callback_calls = message_count

\* C29: within one analyze_conditions call the ventilation reminder and the
\* progress are computed from the same elapsed time: the reminder in a
\* result is the one for the elapsed time its time remaining stands for.
C29_OneElapsedTime ==
    (/\ Called /\ BatchActive
     /\ Val(Res.time_remaining) > 0
     /\ Val(Res.time_remaining) <= ClaimedTotal(season)) =>
        LET elapsed == ClaimedTotal(season) - Val(Res.time_remaining)
            phase == elapsed % VentCycle
        IN  /\ DueSoonIn(Res) <=> (phase >= VentCycle - 5)
            /\ RecentIn(Res) <=> (phase < 5)

====
